---- MODULE Spec2Model ----
(***************************************************************************)
(* A state-machine model of subgrounds/subgraph.py: the field-path algebra *)
(* (Filter, SyntheticField, FieldPath, Object, Subgraph.process_data).     *)
(*                                                                         *)
(* Python objects live in heaps: `elems` holds the PathElement objects,    *)
(* `paths` the FieldPath objects (whose `path` list holds references into  *)
(* `elems`), `sfs` the SyntheticField objects with their metas.  A         *)
(* reference is an index into the heap, so two paths that hold the same    *)
(* PathElement object hold the same index.                                 *)
(***************************************************************************)
EXTENDS Integers, Sequences, FiniteSets, TLC

VARIABLES
  paths,      \* heap of FieldPath objects
  elems,      \* heap of FieldPath.PathElement objects
  sfs,        \* heap of SyntheticField objects (with their SyntheticFieldMeta)
  registry,   \* synthetic fields registered on the schema's types
  counter,    \* SyntheticField.counter
  last,       \* what the last operation was and how it ended
  where,      \* a `where` argument and what fmt_arg made of it
  threads,    \* the threads that construct SyntheticFields concurrently
  data        \* Subgraph.process_data: the paths, the payload, the progress

vars == <<paths, elems, sfs, registry, counter, last, where, threads, data>>

\* The variables of the other specifications, which the operations on paths
\* and synthetic fields leave alone.
aux == <<where, threads, data>>

(***************************************************************************)
(* Bounds of the model.                                                    *)
(***************************************************************************)
MaxPaths == 3
MaxElems == 2
MaxSynth == 2
MaxFilters == 2
MaxRounds == 2
MaxFPaths == 2

(***************************************************************************)
(* The schema the paths are built over (subgrounds.schema).                *)
(***************************************************************************)
ObjectTypes == {"Token"}
InterfaceTypes == {"Account"}
ScalarTypes == {"BigDecimal"}
EnumTypes == {"Kind"}
RootTypes == ObjectTypes \cup InterfaceTypes

NativeField(owner, n0) == [kind |-> "field", owner |-> owner, name |-> n0, sf |-> 0]
SynthFieldRef(i) == [kind |-> "synthetic", owner |-> "", name |-> "", sf |-> i]

\* The declared fields: <<owner type, field name, result type>>.
FieldDecls ==
  { <<"Token", "parent", "Token">>,
    <<"Token", "owner", "Account">>,
    <<"Token", "price", "BigDecimal">>,
    <<"Account", "kind", "Kind">> }

\* The names synthetic fields are registered under, and the one an
\* assignment is tried with.
RegNames == {"adj", "net", "fee"}
AssignNames == {"adj"}
RegKeys == RootTypes \X RegNames

TypeRef(kind, n0, sf) == [kind |-> kind, name |-> n0, sf |-> sf]

TypeByName(n) ==
  IF n \in ObjectTypes THEN TypeRef("OBJECT", n, 0)
  ELSE IF n \in InterfaceTypes THEN TypeRef("INTERFACE", n, 0)
  ELSE IF n \in EnumTypes THEN TypeRef("ENUM", n, 0)
  ELSE TypeRef("SCALAR", n, 0)

\* schema.field_of_object: the field of that name on the type, synthetic
\* fields registered on the type included; NotFound otherwise.
NotFound == [kind |-> "none", owner |-> "", name |-> "", sf |-> 0]

field_of_object(reg, type, n0) ==
  IF <<type, n0>> \in RegKeys /\ reg[<<type, n0>>] # 0
    THEN SynthFieldRef(reg[<<type, n0>>])
  ELSE IF \E d \in FieldDecls : d[1] = type /\ d[2] = n0
    THEN NativeField(type, n0)
  ELSE NotFound

\* schema.type_of_field: the declared result type of a field; a synthetic
\* field's type is its own descriptor.
type_of_field(f) ==
  IF f.kind = "synthetic" THEN TypeRef("SYNTHETIC", "", f.sf)
  ELSE TypeByName((CHOOSE d \in FieldDecls : d[1] = f.owner /\ d[2] = f.name)[3])

(***************************************************************************)
(* Heap objects.                                                           *)
(***************************************************************************)
\* PathElement.args: None, or the list schema.arguments_of_field_args made.
None == [bound |-> FALSE, list |-> <<>>]
Bound(l) == [bound |-> TRUE, list |-> l]

PathElement(f, a) == [type_ |-> f, args |-> a]

\* A PathElement object is named by the path that created it and the place it
\* was created at; a path made by FieldPath.extend holds the objects of the
\* paths it was made of.
ElemId(p, i) == <<p, i>>

\* ext_of records, for a path FieldPath.extend returned, the two paths it was
\* made of (history only: no operation reads it).
FieldPath(root, t, p, from) == [root_type |-> root, type_ |-> t, path |-> p, ext_of |-> from]

leaf(p) == elems[paths[p].path[Len(paths[p].path)]]

\* Values: Python ints, strs, dicts (insertion-ordered <<key, int>> entries),
\* lists of Filter, and references to FieldPath objects.
IntV(i) == [t |-> "int", i |-> i, s |-> "", d |-> <<>>, fs |-> <<>>]
StrV(s) == [t |-> "str", i |-> 0, s |-> s, d |-> <<>>, fs |-> <<>>]
DictV(d) == [t |-> "dict", i |-> 0, s |-> "", d |-> d, fs |-> <<>>]
FiltersV(fs) == [t |-> "filters", i |-> 0, s |-> "", d |-> <<>>, fs |-> fs]
PathV(p) == [t |-> "path", i |-> p, s |-> "", d |-> <<>>, fs |-> <<>>]

Kw(n0, raw) == [name |-> n0, raw |-> raw]

\* Attribute names an access may use: field names of the schema, a name
\* registered as a synthetic field, and a native attribute of FieldPath.
NativeAttrs == {"leaf"}
AttrNames == {"parent", "owner", "price", "kind", "adj"} \cup NativeAttrs

NoFilter == [field |-> NotFound, op |-> "", value |-> 0]

\* last: the operation, how it ended ("ok", or the place that raised) and the
\* FieldPath it acted on or returned.
NoOp == [op |-> "init", outcome |-> "ok", p |-> 0]
Op(op, outcome, p) == [op |-> op, outcome |-> outcome, p |-> p]

\* A SyntheticField object: its meta's name, the name it was constructed
\* with (history only), its function and its lowered dependencies.
ConstDep(v) == [k |-> "const", v |-> v, sf |-> 0, chain |-> <<>>]
MetaDep(i) == [k |-> "meta", v |-> 0, sf |-> i, chain |-> <<>>]
ChainDep(c) == [k |-> "chain", v |-> 0, sf |-> 0, chain |-> c]
NoneDep == [k |-> "none", v |-> 0, sf |-> 0, chain |-> <<>>]

SyntheticField(n0, func, deps) == [name |-> n0, auto |-> n0, func |-> func, deps |-> deps]

\* The path algebra starts on a schema on which one synthetic field is
\* registered, Token.adj, as the assignment `Token.adj = Token.price` leaves it.
WhereIdle == [filters |-> <<>>, done |-> FALSE, out |-> IntV(0)]
ThreadsIdle == <<>>
DataIdle == [fpaths |-> <<>>, payload |-> <<>>, i |-> 0, log |-> <<>>, missing |-> FALSE]

Init ==
  /\ where = WhereIdle /\ threads = ThreadsIdle /\ data = DataIdle
  /\ paths = <<>>
  /\ elems = <<>>
  /\ sfs = << [SyntheticField("SyntheticField_0", "identity",
                  <<ChainDep(<<[args |-> None, field |-> NativeField("Token", "price")]>>)>>)
                EXCEPT !.name = "adj"] >>
  /\ registry = [k \in RegKeys |-> IF k = <<"Token", "adj">> THEN 1 ELSE 0]
  /\ counter = 1
  /\ last = NoOp

(***************************************************************************)
(* Object.__getattribute__: a new single-element FieldPath rooted at the   *)
(* object's type.                                                          *)
(***************************************************************************)
ObjectGetAttr(T, n0) ==
  LET field == field_of_object(registry, T, n0)
      n == Len(paths) + 1 IN
  IF field = NotFound
    THEN /\ last' = Op("obj_getattr", "raise:field_of_object", 0)
         /\ UNCHANGED <<paths, elems, sfs, registry, counter>>
    ELSE /\ Len(paths) < MaxPaths
         /\ Cardinality(DOMAIN elems) < MaxElems
         /\ elems' = (ElemId(n, 1) :> PathElement(field, None)) @@ elems
         /\ paths' = Append(paths,
                       FieldPath(T, type_of_field(field), <<ElemId(n, 1)>>, <<>>))
         /\ last' = Op("obj_getattr", "ok", n)
         /\ UNCHANGED <<sfs, registry, counter>>

(***************************************************************************)
(* FieldPath.__getattribute__: native attributes first; otherwise the path *)
(* is extended in place by the field of that n0.                         *)
(***************************************************************************)
IsTerminal(t) == t.kind \in {"ENUM", "SCALAR", "SYNTHETIC"}

GetAttrTerminal_silent(p, n0) ==
  /\ last' = Op("getattr", "ok", p)
  /\ UNCHANGED <<paths, elems, sfs, registry, counter>>

GetAttrTerminal(p, n0) ==
  /\ last' = Op("getattr", "raise@191", p)
  /\ UNCHANGED <<paths, elems, sfs, registry, counter>>

GetAttr(p, n0) ==
  IF n0 \in NativeAttrs
    THEN /\ last' = Op("getattr", "native", p)
         /\ UNCHANGED <<paths, elems, sfs, registry, counter>>
  ELSE IF IsTerminal(paths[p].type_)
    THEN GetAttrTerminal(p, n0)
  ELSE LET field == field_of_object(registry, paths[p].type_.name, n0)
           i == Len(paths[p].path) + 1 IN
    IF field = NotFound
      THEN /\ last' = Op("getattr", "raise:field_of_object", p)
           /\ UNCHANGED <<paths, elems, sfs, registry, counter>>
      ELSE /\ Cardinality(DOMAIN elems) < MaxElems
           /\ elems' = (ElemId(p, i) :> PathElement(field, None)) @@ elems
           /\ paths' = [paths EXCEPT ![p].type_ = type_of_field(field),
                                     ![p].path = Append(@, ElemId(p, i))]
           /\ last' = Op("getattr", "ok", p)
           /\ UNCHANGED <<sfs, registry, counter>>

(***************************************************************************)
(* Filter.name and Filter.to_dict.  A Python dict keeps its keys in the    *)
(* order of their first insertion; storing under a key it already holds    *)
(* replaces the value.                                                     *)
(***************************************************************************)
Operators == {"EQ", "NEQ", "LT", "LTE", "GT", "GTE"}

Filter(f, op, value) == [field |-> f, op |-> op, value |-> value]

name(f) ==
  CASE f.op = "EQ"  -> f.field.name
    [] f.op = "NEQ" -> f.field.name \o "_not"
    [] f.op = "LT"  -> f.field.name \o "_lt"
    [] f.op = "GT"  -> f.field.name \o "_gt"
    [] f.op = "LTE" -> f.field.name \o "_lte"
    [] f.op = "GTE" -> f.field.name \o "_gte"

DictKeys(d) == {d[i][1] : i \in DOMAIN d}
DictGet(d, k) == d[CHOOSE i \in DOMAIN d : d[i][1] = k][2]
DictSet_keep_first(d, k, v) ==
  IF k \in DictKeys(d) THEN d ELSE Append(d, <<k, v>>)

DictSet(d, k, v) ==
  IF k \in DictKeys(d)
    THEN [i \in DOMAIN d |-> IF d[i][1] = k THEN <<k, v>> ELSE d[i]]
    ELSE Append(d, <<k, v>>)

RECURSIVE to_dict_from(_, _)
to_dict_from(filters, d) ==
  IF filters = <<>> THEN d
  ELSE to_dict_from(Tail(filters), DictSet(d, name(Head(filters)), Head(filters).value))

to_dict(filters) == to_dict_from(filters, <<>>)

(***************************************************************************)
(* FieldPath.__call__: argument binding.                                   *)
(***************************************************************************)
Ok(v) == [ok |-> TRUE, v |-> v, err |-> ""]
Err(e) == [ok |-> FALSE, v |-> IntV(0), err |-> e]

fmt_arg(n, raw) ==
  IF n = "where" /\ raw.t = "filters" /\ raw.fs # <<>>
    THEN Ok(DictV(to_dict(raw.fs)))
  ELSE IF n = "orderBy" /\ raw.t = "path"
    THEN IF leaf(raw.i).type_.kind = "field"
           THEN Ok(StrV(leaf(raw.i).type_.name))
           ELSE Err("raise@169")
  ELSE Ok(raw)

\* schema.arguments_of_field_args: the arguments a field declares, and the
\* check of the given names against them.
DeclaredArgs(f) ==
  IF f.owner = "Token" /\ f.name = "parent" THEN {"first", "where", "orderBy"}
  ELSE IF f.owner = "Token" /\ f.name = "owner" THEN {"first"}
  ELSE {}

arguments_of_field_args(f, formatted) ==
  IF \E i \in DOMAIN formatted : formatted[i].name \notin DeclaredArgs(f)
    THEN [ok |-> FALSE, list |-> <<>>, err |-> "raise:arguments_of_field_args"]
    ELSE [ok |-> TRUE, list |-> formatted, err |-> ""]

\* The dict comprehension of line 177: the first fmt_arg that raises ends it.
call_args(f, kw) ==
  LET fm == [i \in DOMAIN kw |-> fmt_arg(kw[i].name, kw[i].raw)] IN
  IF \E i \in DOMAIN kw : ~fm[i].ok
    THEN [ok |-> FALSE, list |-> <<>>,
          err |-> fm[CHOOSE i \in DOMAIN kw : ~fm[i].ok /\ \A j \in 1..(i-1) : fm[j].ok].err]
    ELSE arguments_of_field_args(f, [i \in DOMAIN kw |-> Kw(kw[i].name, fm[i].v)])

leafId(p) == paths[p].path[Len(paths[p].path)]

Call(p, kw) ==
  IF leaf(p).type_.kind = "field"
    THEN LET r == call_args(leaf(p).type_, kw) IN
         IF r.ok
           THEN /\ elems' = [elems EXCEPT ![leafId(p)].args = Bound(r.list)]
                /\ last' = Op("call", "ok", p)
                /\ UNCHANGED <<paths, sfs, registry, counter>>
           ELSE /\ last' = Op("call", r.err, p)
                /\ UNCHANGED <<paths, elems, sfs, registry, counter>>
    ELSE /\ last' = Op("call", "raise@180", p)
         /\ UNCHANGED <<paths, elems, sfs, registry, counter>>

\* The keyword arguments a call is tried with.
WhereFilters ==
  <<Filter(NativeField("Token", "price"), "EQ", 1),
    Filter(NativeField("Token", "price"), "NEQ", 2)>>

KwChoices ==
  { <<Kw("first", IntV(1))>>,
    <<Kw("where", FiltersV(WhereFilters))>>,
    <<Kw("bogus", IntV(1))>> }
  \cup { <<Kw("orderBy", PathV(q))>> : q \in DOMAIN paths }

(***************************************************************************)
(* FieldPath.extend.                                                       *)
(***************************************************************************)
extend_path_swapped(a, b) == paths[b].path \o paths[a].path

extend_path(a, b) == paths[a].path \o paths[b].path

extend_outcome(a, b) ==
  IF leaf(a).type_.kind = "field"
    THEN IF type_of_field(leaf(a).type_).kind \in {"OBJECT", "INTERFACE"}
           THEN IF type_of_field(leaf(a).type_).name = paths[b].root_type
                  THEN "ok"
                  ELSE "raise@215"
           ELSE "raise@217"
    ELSE "raise@219"

extend(a, b) ==
  IF extend_outcome(a, b) = "ok"
    THEN /\ Len(paths) < MaxPaths
         /\ paths' = Append(paths,
              FieldPath(paths[a].root_type, paths[b].type_, extend_path(a, b), <<a, b>>))
         /\ last' = Op("extend", "ok", Len(paths) + 1)
         /\ UNCHANGED <<elems, sfs, registry, counter>>
    ELSE /\ last' = Op("extend", extend_outcome(a, b), 0)
         /\ UNCHANGED <<paths, elems, sfs, registry, counter>>

(***************************************************************************)
(* Filter construction: FieldPath.mk_filter and the comparison methods.    *)
(* Python's comparison operators call the special methods __eq__, __lt__,  *)
(* __gt__, __le__ and __ge__ of the left operand's class; a comparison for *)
(* which the class defines none, against a plain value, is a TypeError.    *)
(***************************************************************************)
test_mode == FALSE

\* The comparison methods the class defines, with the operator each passes.
FieldPathMethods ==
  { <<"__eq__", "EQ">>, <<"__lt__", "LT">>, <<"__gt__", "GT">>,
    <<"__lte__", "LTE">>, <<"__gte__", "GTE">> }

CompareSymbols == {"==", "<", ">", "<=", ">="}

SpecialMethod(sym) ==
  CASE sym = "==" -> "__eq__"
    [] sym = "<"  -> "__lt__"
    [] sym = ">"  -> "__gt__"
    [] sym = "<=" -> "__le__"
    [] sym = ">=" -> "__ge__"

mk_filter(p, op, value) ==
  IF leaf(p).type_.kind = "field"
    THEN [ok |-> TRUE, filter |-> Filter(leaf(p).type_, op, value), err |-> ""]
    ELSE [ok |-> FALSE, filter |-> NoFilter, err |-> "raise@228"]

compare(p, sym, value) ==
  IF \E m \in FieldPathMethods : m[1] = SpecialMethod(sym)
    THEN IF sym = "==" /\ test_mode
           THEN [ok |-> FALSE, filter |-> NoFilter, err |-> "bool"]
           ELSE mk_filter(p, (CHOOSE m \in FieldPathMethods : m[1] = SpecialMethod(sym))[2], value)
    ELSE [ok |-> FALSE, filter |-> NoFilter, err |-> "raise:unsupported operand"]

CompareValues == {1, 2}

Compare(p, sym, value) ==
  LET r == compare(p, sym, value) IN
  /\ last' = Op("compare", IF r.ok THEN "ok" ELSE r.err, p)
  /\ UNCHANGED <<paths, elems, sfs, registry, counter>>

Next ==
  \/ \E T \in RootTypes, n \in AttrNames : ObjectGetAttr(T, n) /\ UNCHANGED aux
  \/ \E p \in DOMAIN paths, n \in AttrNames : GetAttr(p, n) /\ UNCHANGED aux
  \/ \E p \in DOMAIN paths, kw \in KwChoices : Call(p, kw) /\ UNCHANGED aux
  \/ \E a \in DOMAIN paths, b \in DOMAIN paths : extend(a, b) /\ UNCHANGED aux
  \/ \E p \in DOMAIN paths, sym \in CompareSymbols, v \in CompareValues : Compare(p, sym, v) /\ UNCHANGED aux

\* The path algebra: every operation of Object and FieldPath on the paths.
Spec == Init /\ [][Next]_vars

NextBuild ==
  \/ \E T \in RootTypes, n \in AttrNames : ObjectGetAttr(T, n) /\ UNCHANGED aux
  \/ \E p \in DOMAIN paths, n \in AttrNames : GetAttr(p, n) /\ UNCHANGED aux
  \/ \E a \in DOMAIN paths, b \in DOMAIN paths : extend(a, b) /\ UNCHANGED aux

\* Path construction alone: attribute access and extend.
SpecBuild == Init /\ [][NextBuild]_vars

(***************************************************************************)
(* SyntheticField.__init__ and the arithmetic operators of FieldPath and   *)
(* SyntheticField.                                                         *)
(***************************************************************************)
\* An operand of an operator: a FieldPath, a SyntheticField, an int, or a
\* FieldPath whose path list holds something that is no PathElement of a
\* field or synthetic field (the `case _` of line 74).
PathOperand(p) == [k |-> "path", i |-> p]
SfOperand(j) == [k |-> "sf", i |-> j]
ConstOperand(v) == [k |-> "const", i |-> v]
BadPathOperand == [k |-> "badpath", i |-> 0]

\* fieldmeta of one element: (args, fmeta) for a field, the meta itself for a
\* synthetic field.
lower_element(e) ==
  IF e.type_.kind = "field" THEN [args |-> e.args, field |-> e.type_]
  ELSE [args |-> None, field |-> e.type_]

\* The inner f of __init__ (lines 65-82); a malformed path raises.
lower(x) ==
  CASE x.k = "path" ->
         ChainDep([n \in DOMAIN paths[x.i].path |-> lower_element(elems[paths[x.i].path[n]])])
    [] x.k = "sf" -> MetaDep(x.i)
    [] x.k = "const" -> ConstDep(x.i)
    [] OTHER -> NoneDep

lower_raises(x) == x.k = "badpath"

auto_name(c) == "SyntheticField_" \o ToString(c)

next_counter_kept(c) == c

next_counter_skip(c) == c + 2

next_counter(c) == c + 1

\* SyntheticField(subgraph, func, *deps): the new object is sfs'[Len(sfs)+1].
Construct(func, deps, opname) ==
  IF \E n \in DOMAIN deps : lower_raises(deps[n])
    THEN /\ last' = Op(opname, "raise@75", 0)
         /\ UNCHANGED <<sfs, counter>>
    ELSE /\ Len(sfs) < MaxSynth
         /\ sfs' = Append(sfs,
              SyntheticField(auto_name(counter), func, [n \in DOMAIN deps |-> lower(deps[n])]))
         /\ counter' = next_counter(counter)
         /\ last' = Op(opname, "ok", Len(sfs) + 1)

\* operator.add, sub, mul, truediv, pow; operator.neg, abs.
BinarySymbols == {"+", "-", "*", "/", "**"}
UnarySymbols == {"neg", "abs"}

OperatorFunc(sym) ==
  CASE sym = "+"  -> "add"
    [] sym = "-"  -> "sub"
    [] sym = "*"  -> "mul"
    [] sym = "/"  -> "truediv"
    [] sym = "**" -> "pow"
    [] sym = "neg" -> "neg"
    [] sym = "abs" -> "abs"

\* The arithmetic methods both classes define (lines 97-116 and 250-269).
ArithMethods ==
  {"__add__", "__sub__", "__mul__", "__truediv__", "__pow__", "__neg__", "__abs__"}

\* Python's binary operator: the left operand's method; with a left operand
\* whose class does not handle the right one (an int), the reflected method of
\* the right operand's class; a TypeError when there is neither.
LeftMethod(sym) ==
  CASE sym = "+"  -> "__add__"
    [] sym = "-"  -> "__sub__"
    [] sym = "*"  -> "__mul__"
    [] sym = "/"  -> "__truediv__"
    [] sym = "**" -> "__pow__"

ReflectedMethod(sym) ==
  CASE sym = "+"  -> "__radd__"
    [] sym = "-"  -> "__rsub__"
    [] sym = "*"  -> "__rmul__"
    [] sym = "/"  -> "__rtruediv__"
    [] sym = "**" -> "__rpow__"

IsFieldObject(x) == x.k \in {"path", "sf", "badpath"}

Arith(sym, l, r) ==
  /\ IsFieldObject(l) \/ IsFieldObject(r)
  /\ IF IsFieldObject(l) /\ LeftMethod(sym) \in ArithMethods
       THEN Construct(OperatorFunc(sym), <<l, r>>, "arith")
     ELSE IF ~IsFieldObject(l) /\ ReflectedMethod(sym) \in ArithMethods
       THEN Construct(OperatorFunc(sym), <<r, l>>, "arith")
     ELSE /\ last' = Op("arith", "raise:unsupported operand", 0)
          /\ UNCHANGED <<sfs, counter>>
  /\ UNCHANGED <<paths, elems, registry>>

Unary(sym, x) ==
  /\ IsFieldObject(x)
  /\ Construct(OperatorFunc(sym), <<x>>, "unary")
  /\ UNCHANGED <<paths, elems, registry>>

(***************************************************************************)
(* Object.__setattr__: a SyntheticField is renamed and registered on the   *)
(* object's type; a FieldPath is first wrapped in a SyntheticField of the  *)
(* identity function; any other value is an ordinary attribute.            *)
(***************************************************************************)
\* schema.add_object_field: the type's field of that name is now this meta.
add_object_field(reg, T, n0, j) == [reg EXCEPT ![<<T, n0>>] = j]

SetAttr(T, n0, x) ==
  /\ UNCHANGED <<paths, elems>>
  /\ CASE x.k = "sf" ->
            /\ sfs' = [sfs EXCEPT ![x.i].name = n0]
            /\ registry' = add_object_field(registry, T, n0, x.i)
            /\ last' = Op("setattr", "ok", x.i)
            /\ UNCHANGED counter
       [] x.k \in {"path", "badpath"} ->
            IF lower_raises(x)
              THEN /\ last' = Op("setattr", "raise@75", 0)
                   /\ UNCHANGED <<sfs, counter, registry>>
              ELSE /\ Len(sfs) < MaxSynth
                   /\ sfs' = Append(sfs,
                        [SyntheticField(auto_name(counter), "identity", <<lower(x)>>)
                           EXCEPT !.name = n0])
                   /\ counter' = next_counter(counter)
                   /\ registry' = add_object_field(registry, T, n0, Len(sfs) + 1)
                   /\ last' = Op("setattr", "ok", Len(sfs) + 1)
       [] OTHER ->
            /\ last' = Op("setattr", "plain", 0)
            /\ UNCHANGED <<sfs, counter, registry>>

\* The operands an operation is tried with.
Operands ==
  {PathOperand(p) : p \in DOMAIN paths} \cup {SfOperand(j) : j \in DOMAIN sfs}
    \cup {ConstOperand(10), BadPathOperand}

\* One path to compute with, Token.price, on a schema with no synthetic
\* field yet and a counter that was never used.
InitSynth ==
  /\ where = WhereIdle /\ threads = ThreadsIdle /\ data = DataIdle
  /\ paths = << FieldPath("Token", TypeByName("BigDecimal"), <<ElemId(1, 1)>>, <<>>) >>
  /\ elems = (ElemId(1, 1) :> PathElement(NativeField("Token", "price"), None))
  /\ sfs = <<>>
  /\ registry = [k \in RegKeys |-> 0]
  /\ counter = 0
  /\ last = NoOp

NextSynth ==
  \/ \E sym \in BinarySymbols, l \in Operands, r \in Operands : Arith(sym, l, r) /\ UNCHANGED aux
  \/ \E sym \in UnarySymbols, x \in Operands : Unary(sym, x) /\ UNCHANGED aux
  \/ \E T \in RootTypes, n \in AssignNames, x \in Operands : SetAttr(T, n, x) /\ UNCHANGED aux

\* Synthetic fields: construction, arithmetic and registration.
SpecSynth == InitSynth /\ [][NextSynth]_vars

\* The same operations with one operator of each arity and one type to
\* register on: the counter does not depend on which.
NextCounter ==
  \/ \E l \in Operands, r \in Operands : Arith("+", l, r) /\ UNCHANGED aux
  \/ \E x \in Operands : Unary("neg", x) /\ UNCHANGED aux
  \/ \E n \in AssignNames, x \in Operands : SetAttr("Token", n, x) /\ UNCHANGED aux

SpecCounter == InitSynth /\ [][NextCounter]_vars

(***************************************************************************)
(* The `where` argument alone: fmt_arg over every short list of Filters.   *)
(***************************************************************************)
Lists(S, n) == UNION {[1..k -> S] : k \in 0..n}

FilterFields == {NativeField("Token", "price"), NativeField("Token", "parent")}
FilterValues == {1, 2}
FilterInputs ==
  {Filter(f, op, v) : f \in FilterFields, op \in Operators, v \in FilterValues}

InitWhere ==
  /\ \E fs \in Lists(FilterInputs, MaxFilters) :
       where = [filters |-> fs, done |-> FALSE, out |-> IntV(0)]
  /\ threads = ThreadsIdle /\ data = DataIdle
  /\ paths = <<>> /\ elems = <<>> /\ sfs = <<>>
  /\ registry = [k \in RegKeys |-> 0]
  /\ counter = 0
  /\ last = NoOp

\* fmt_arg("where", filters), as a keyword argument of a call gets it.
FmtWhere ==
  /\ ~where.done
  /\ where' = [where EXCEPT !.done = TRUE,
                            !.out = fmt_arg("where", FiltersV(where.filters)).v]
  /\ UNCHANGED <<paths, elems, sfs, registry, counter, last, threads, data>>

NextWhere == FmtWhere

SpecWhere == InitWhere /\ [][NextWhere]_vars

(***************************************************************************)
(* Two threads that construct SyntheticFields with no lock.  The name is   *)
(* formed from a read of SyntheticField.counter (line 85); the increment   *)
(* of line 91 is a second read of the class attribute followed by a store. *)
(* Nothing orders the reads and stores of one thread against the other's.  *)
(***************************************************************************)
Threads == {1, 2}

ThreadStart == [t \in Threads |-> [pc |-> "idle", tmp |-> 0, made |-> 0]]

InitRace ==
  /\ threads = ThreadStart
  /\ where = WhereIdle /\ data = DataIdle
  /\ paths = <<>> /\ elems = <<>> /\ sfs = <<>>
  /\ registry = [k \in RegKeys |-> 0]
  /\ counter = 0
  /\ last = NoOp

\* Lines 61-89: the meta is made, named after the counter as it is now.
NameMeta(t) ==
  /\ threads[t].pc = "idle"
  /\ threads[t].made < MaxRounds
  /\ sfs' = Append(sfs, SyntheticField(auto_name(counter), "identity", <<ConstDep(t)>>))
  /\ threads' = [threads EXCEPT ![t].pc = "named"]
  /\ UNCHANGED <<paths, elems, registry, counter, last, where, data>>

\* Line 91, first half: the counter is read.
LoadCounter(t) ==
  /\ threads[t].pc = "named"
  /\ threads' = [threads EXCEPT ![t].pc = "loaded", ![t].tmp = counter]
  /\ UNCHANGED <<paths, elems, sfs, registry, counter, last, where, data>>

\* Line 91, second half: the value read, plus one, is stored.
StoreCounter(t) ==
  /\ threads[t].pc = "loaded"
  /\ counter' = next_counter(threads[t].tmp)
  /\ threads' = [threads EXCEPT ![t].pc = "idle", ![t].made = @ + 1]
  /\ UNCHANGED <<paths, elems, sfs, registry, last, where, data>>

NextRace ==
  \/ \E t \in Threads : NameMeta(t)
  \/ \E t \in Threads : LoadCounter(t)
  \/ \E t \in Threads : StoreCounter(t)

SpecRace == InitRace /\ [][NextRace]_vars

(***************************************************************************)
(* Subgraph.process_data: every path's fieldmeta_path is applied to the    *)
(* payload.  schema.apply_field_path walks the payload along the path and, *)
(* at a synthetic descriptor, evaluates its dependencies (a dependency     *)
(* that is a synthetic descriptor recursively, first), applies its         *)
(* function and writes the value under the descriptor's name.              *)
(***************************************************************************)
\* The payload: the object the query returned and the object under its
\* `parent` key; each key of an object holds a number or is absent.
Positions == {"top", "parent"}
PayloadKeys == {"price"} \cup RegNames
Absent == [has |-> FALSE, v |-> 0]
Val(v) == [has |-> TRUE, v |-> v]

Descend(pos, key) == IF pos = "top" /\ key = "parent" THEN "parent" ELSE "none"

\* The functions the operators of lines 97-116 hand to a SyntheticField.
apply_func(func, args) ==
  CASE func = "identity" -> args[1]
    [] func = "add" -> args[1] + args[2]
    [] func = "sub" -> args[1] - args[2]
    [] func = "mul" -> args[1] * args[2]
    [] func = "neg" -> 0 - args[1]
    [] func = "abs" -> IF args[1] < 0 THEN 0 - args[1] ELSE args[1]

\* Reading a key the payload object does not hold is recorded in `missing`.
read(st, pos, key) ==
  IF pos \in Positions /\ st.payload[pos][key].has
    THEN [st |-> st, v |-> st.payload[pos][key].v]
    ELSE [st |-> [st EXCEPT !.missing = TRUE], v |-> 0]

RECURSIVE eval_synthetic(_, _, _)
RECURSIVE resolve_deps(_, _, _, _)
RECURSIVE resolve_chain(_, _, _)

resolve_chain(c, pos, st) ==
  LET h == Head(c) IN
  IF h.field.kind = "synthetic" THEN eval_synthetic(h.field.sf, pos, st)
  ELSE IF Len(c) = 1 THEN read(st, pos, h.field.name)
  ELSE resolve_chain(Tail(c), Descend(pos, h.field.name), st)

resolve_deps(deps, pos, st, acc) ==
  IF deps = <<>> THEN [st |-> st, v |-> acc]
  ELSE LET d == Head(deps)
           r == CASE d.k = "const" -> [st |-> st, v |-> d.v]
                  [] d.k = "meta" -> eval_synthetic(d.sf, pos, st)
                  [] d.k = "chain" -> resolve_chain(d.chain, pos, st)
                  [] OTHER -> [st |-> st, v |-> 0]
       IN  resolve_deps(Tail(deps), pos, r.st, Append(acc, r.v))

eval_synthetic(j, pos, st) ==
  LET r == resolve_deps(sfs[j].deps, pos, st, <<>>)
      v == apply_func(sfs[j].func, r.v)
  IN  [st |-> [r.st EXCEPT !.payload[pos][sfs[j].name] = Val(v),
                           !.log = Append(@, [pos |-> pos, sf |-> j])],
       v |-> v]

RECURSIVE apply_field_path(_, _, _)
apply_field_path(fmp, pos, st) ==
  IF fmp = <<>> \/ pos \notin Positions THEN st
  ELSE LET h == Head(fmp) IN
       IF h.field.kind = "synthetic" THEN eval_synthetic(h.field.sf, pos, st).st
       ELSE apply_field_path(Tail(fmp), Descend(pos, h.field.name), st)

\* A mistaken fieldmeta_path that keeps the elements of declared fields only.
fieldmeta_path_fields_only(p) ==
  SelectSeq([n \in DOMAIN paths[p].path |-> lower_element(elems[paths[p].path[n]])],
            LAMBDA e : e.field.kind = "field")

\* FieldPath.fieldmeta_path: (args, fmeta) of a field element, the meta of a
\* synthetic one.
fieldmeta_path(p) ==
  [n \in DOMAIN paths[p].path |-> lower_element(elems[paths[p].path[n]])]

\* One turn of the loop of process_data: data.i paths of the list are done,
\* the next one is applied to the payload.
process_data ==
  /\ data.i < Len(data.fpaths)
  /\ data' = [apply_field_path(fieldmeta_path(data.fpaths[data.i + 1]), "top", data)
                EXCEPT !.i = @ + 1]
  /\ UNCHANGED <<paths, elems, sfs, registry, counter, last, where, threads>>

\* The schema to decorate over, as these statements leave it:
\*   x = Token.price + 10;  Token.adj = x;  Token.net = x * Token.price;
\*   Token.fee = Token.net - x
\* and the paths Token.adj, Token.net, Token.fee, Token.parent.fee, Token.price.
PriceElem == [args |-> None, field |-> NativeField("Token", "price")]
SynthElem(j) == [args |-> None, field |-> SynthFieldRef(j)]
PriceValues == {1, 2}

Payload(a, b) ==
  [pos \in Positions |->
    [key \in PayloadKeys |->
      IF key = "price" THEN Val(IF pos = "top" THEN a ELSE b) ELSE Absent]]

InitDecorate ==
  /\ where = WhereIdle /\ threads = ThreadsIdle
  /\ sfs = << [SyntheticField("SyntheticField_0", "add", <<ChainDep(<<PriceElem>>), ConstDep(10)>>)
                 EXCEPT !.name = "adj"],
              [SyntheticField("SyntheticField_1", "mul", <<MetaDep(1), ChainDep(<<PriceElem>>)>>)
                 EXCEPT !.name = "net"],
              [SyntheticField("SyntheticField_2", "sub", <<ChainDep(<<SynthElem(2)>>), MetaDep(1)>>)
                 EXCEPT !.name = "fee"] >>
  /\ registry = [k \in RegKeys |->
                   CASE k = <<"Token", "adj">> -> 1
                     [] k = <<"Token", "net">> -> 2
                     [] k = <<"Token", "fee">> -> 3
                     [] OTHER -> 0]
  /\ counter = 3
  /\ paths = << FieldPath("Token", TypeRef("SYNTHETIC", "", 1), <<ElemId(1, 1)>>, <<>>),
                FieldPath("Token", TypeRef("SYNTHETIC", "", 2), <<ElemId(2, 1)>>, <<>>),
                FieldPath("Token", TypeRef("SYNTHETIC", "", 3), <<ElemId(3, 1)>>, <<>>),
                FieldPath("Token", TypeRef("SYNTHETIC", "", 3), <<ElemId(4, 1), ElemId(4, 2)>>, <<>>),
                FieldPath("Token", TypeByName("BigDecimal"), <<ElemId(5, 1)>>, <<>>) >>
  /\ elems = (ElemId(1, 1) :> PathElement(SynthFieldRef(1), None))
          @@ (ElemId(2, 1) :> PathElement(SynthFieldRef(2), None))
          @@ (ElemId(3, 1) :> PathElement(SynthFieldRef(3), None))
          @@ (ElemId(4, 1) :> PathElement(NativeField("Token", "parent"), None))
          @@ (ElemId(4, 2) :> PathElement(SynthFieldRef(3), None))
          @@ (ElemId(5, 1) :> PathElement(NativeField("Token", "price"), None))
  /\ last = NoOp
  /\ \E fps \in Lists(1..5, MaxFPaths), a \in PriceValues, b \in PriceValues :
       data = [fpaths |-> fps, payload |-> Payload(a, b), i |-> 0,
               log |-> <<>>, missing |-> FALSE]

NextDecorate == process_data

SpecDecorate == InitDecorate /\ [][NextDecorate]_vars

(***************************************************************************)
(* What a caller sees of a path: its root type, its current type and, in   *)
(* order, the field and the bound arguments of each of its elements.       *)
(***************************************************************************)
View(ps, es, q) ==
  [root_type |-> ps[q].root_type, type_ |-> ps[q].type_,
   elements |-> [i \in DOMAIN ps[q].path |-> es[ps[q].path[i]]]]

ArgsOf(ps, es, q) == [i \in DOMAIN ps[q].path |-> es[ps[q].path[i]].args]

IsConcrete(e) == e.type_.kind = "field"
IsSynthetic(e) == e.type_.kind = "synthetic"

(***************************************************************************)
(* C1: FieldPath.extend(a, b) succeeds exactly when a's last element is a  *)
(* concrete field whose result type is an object or interface type named   *)
(* as b's root type, and raises otherwise; the path it returns has a's     *)
(* root type, b's current type and the elements of a followed by those of  *)
(* b.                                                                      *)
(***************************************************************************)
ExtendMatches(a, b) ==
  /\ IsConcrete(leaf(a))
  /\ \E d \in FieldDecls :
       /\ d[1] = leaf(a).type_.owner /\ d[2] = leaf(a).type_.name
       /\ d[3] \in ObjectTypes \cup InterfaceTypes
       /\ d[3] = paths[b].root_type

C1_ExtendContract ==
  [][last'.op = "extend" =>
       IF last'.outcome = "ok"
         THEN LET c == paths'[last'.p]
                  a == c.ext_of[1]
                  b == c.ext_of[2] IN
              /\ ExtendMatches(a, b)
              /\ paths' = Append(paths, c)
              /\ c.root_type = paths[a].root_type
              /\ c.type_ = paths[b].type_
              /\ c.path = paths[a].path \o paths[b].path
              /\ View(paths', elems', last'.p).elements
                   = View(paths, elems, a).elements \o View(paths, elems, b).elements
         ELSE /\ last'.outcome \in {"raise@215", "raise@217", "raise@219"}
              /\ paths' = paths
              /\ \A a \in DOMAIN paths, b \in DOMAIN paths :
                   extend(a, b) => ~ExtendMatches(a, b)
     ]_vars

C1_Witness ==
  /\ last.op = "extend" /\ last.outcome = "ok"
  /\ paths[last.p].ext_of # <<>>
  /\ paths[last.p].ext_of[1] # paths[last.p].ext_of[2]
  /\ paths[paths[last.p].ext_of[1]].path # paths[paths[last.p].ext_of[2]].path

(***************************************************************************)
(* C2: on a path whose current type is a scalar, an enum or a synthetic    *)
(* field, attribute access raises and leaves the path as it was.           *)
(***************************************************************************)
\* As claimed: for every attribute name.
C2_Original ==
  [][\A p \in DOMAIN paths, n \in AttrNames :
       (last'.op = "getattr" /\ IsTerminal(paths[p].type_) /\ GetAttr(p, n)) =>
         /\ last'.outcome = "raise@191"
         /\ paths' = paths /\ elems' = elems
     ]_vars

\* Amended: for every attribute name that is not a native attribute of the
\* FieldPath object.
C2_TerminalRaises ==
  [][\A p \in DOMAIN paths, n \in AttrNames \ NativeAttrs :
       (last'.op = "getattr" /\ IsTerminal(paths[p].type_) /\ GetAttr(p, n)) =>
         /\ last'.outcome = "raise@191"
         /\ paths' = paths /\ elems' = elems
     ]_vars

C2_Witness ==
  /\ last.op = "getattr" /\ last.outcome = "raise@191"
  /\ paths[last.p].type_.kind = "SYNTHETIC"
  /\ \E q \in DOMAIN paths : paths[q].type_.kind \in {"ENUM", "SCALAR"}

(***************************************************************************)
(* C3: argument binding raises on a synthetic leaf; a binding that         *)
(* succeeds replaces the bound arguments of the last element and changes   *)
(* those of no other element of the path; a binding that fails changes     *)
(* the bound arguments of no element of the path.                          *)
(***************************************************************************)
C3_Original ==
  [][\A p \in DOMAIN paths, kw \in KwChoices :
       (last'.op = "call" /\ Call(p, kw)) =>
         LET n == Len(paths[p].path)
             before == ArgsOf(paths, elems, p)
             after == ArgsOf(paths', elems', p) IN
         /\ IsSynthetic(leaf(p)) => last'.outcome = "raise@180"
         /\ last'.outcome = "ok" =>
              /\ IsConcrete(leaf(p))
              /\ after[n] = Bound(call_args(leaf(p).type_, kw).list)
              /\ \A i \in 1..(n - 1) : after[i] = before[i]
         /\ last'.outcome # "ok" => after = before
     ]_vars

\* What does hold: the same, with "no other element" read as "no other
\* PathElement object".
C3_ByObject ==
  [][\A p \in DOMAIN paths, kw \in KwChoices :
       (last'.op = "call" /\ Call(p, kw)) =>
         /\ IsSynthetic(leaf(p)) => last'.outcome = "raise@180"
         /\ last'.outcome = "ok" =>
              /\ IsConcrete(leaf(p))
              /\ elems'[leafId(p)].args = Bound(call_args(leaf(p).type_, kw).list)
              /\ \A e \in DOMAIN elems \ {leafId(p)} : elems'[e] = elems[e]
         /\ last'.outcome # "ok" => elems' = elems
     ]_vars

(***************************************************************************)
(* C4: each of the comparisons ==, <, >, <=, >= of a path that ends in a   *)
(* concrete field with a value gives the Filter of that field, the         *)
(* comparison's operator and the value; on a path that ends in a synthetic *)
(* field each of them raises; no Filter made holds a synthetic field.      *)
(***************************************************************************)
OperatorOf(sym) ==
  CASE sym = "==" -> "EQ"
    [] sym = "<"  -> "LT"
    [] sym = ">"  -> "GT"
    [] sym = "<=" -> "LTE"
    [] sym = ">=" -> "GTE"

C4_Original ==
  [][\A p \in DOMAIN paths, sym \in CompareSymbols, v \in CompareValues :
       (last'.op = "compare" /\ Compare(p, sym, v)) =>
         /\ IsConcrete(leaf(p)) =>
              /\ last'.outcome = "ok"
              /\ compare(p, sym, v).filter = Filter(leaf(p).type_, OperatorOf(sym), v)
         /\ IsSynthetic(leaf(p)) => last'.outcome # "ok"
         /\ last'.outcome = "ok" => compare(p, sym, v).filter.field.kind = "field"
     ]_vars

\* What does hold: the same for ==, < and > alone.
C4_Dispatched ==
  [][\A p \in DOMAIN paths, sym \in {"==", "<", ">"}, v \in CompareValues :
       (last'.op = "compare" /\ Compare(p, sym, v)) =>
         /\ IsConcrete(leaf(p)) =>
              /\ last'.outcome = "ok"
              /\ compare(p, sym, v).filter = Filter(leaf(p).type_, OperatorOf(sym), v)
         /\ IsSynthetic(leaf(p)) => last'.outcome = "raise@228"
         /\ last'.outcome = "ok" => compare(p, sym, v).filter.field.kind = "field"
     ]_vars

(***************************************************************************)
(* C10: after c = FieldPath.extend(a, b), binding arguments on c or        *)
(* extending c leaves a and b as they were, and operations on a or b leave *)
(* c as it was.                                                            *)
(***************************************************************************)
C10_Original ==
  [][\A c \in DOMAIN paths :
       paths[c].ext_of # <<>> =>
         LET a == paths[c].ext_of[1]
             b == paths[c].ext_of[2] IN
         /\ (last'.op \in {"call", "getattr"} /\ last'.p = c) =>
              /\ View(paths', elems', a) = View(paths, elems, a)
              /\ View(paths', elems', b) = View(paths, elems, b)
         /\ (last'.op \in {"call", "getattr"} /\ last'.p \in {a, b}) =>
              View(paths', elems', c) = View(paths, elems, c)
     ]_vars

\* What does hold: attribute access on c leaves a and b as they were.
C10_GetAttrOnly ==
  [][\A c \in DOMAIN paths :
       paths[c].ext_of # <<>> =>
         LET a == paths[c].ext_of[1]
             b == paths[c].ext_of[2] IN
         /\ (last'.op = "getattr" /\ last'.p = c) =>
              /\ View(paths', elems', a) = View(paths, elems, a)
              /\ View(paths', elems', b) = View(paths, elems, b)
         /\ (last'.op = "getattr" /\ last'.p \in {a, b}) =>
              View(paths', elems', c) = View(paths, elems, c)
     ]_vars
(***************************************************************************)
(* C6: an arithmetic operator with a FieldPath or SyntheticField on one    *)
(* side and an int, a FieldPath or a SyntheticField on the other (the int  *)
(* may be on the left), and a unary neg or abs, gives a new SyntheticField *)
(* whose function is the operator and whose dependencies are the operands, *)
(* lowered, in operand order; the operands stay as they were.              *)
(***************************************************************************)
WellFormed(x) == x.k \in {"path", "sf", "const"}

ArithResult(sym, deps) ==
  /\ last'.outcome = "ok"
  /\ Len(sfs') = Len(sfs) + 1
  /\ \A j \in DOMAIN sfs : sfs'[j] = sfs[j]
  /\ sfs'[Len(sfs')].func = OperatorFunc(sym)
  /\ sfs'[Len(sfs')].deps = [n \in DOMAIN deps |-> lower(deps[n])]
  /\ sfs'[Len(sfs')].name = sfs'[Len(sfs')].auto
  /\ paths' = paths /\ elems' = elems

C6_Original ==
  [][/\ \A sym \in BinarySymbols, l \in Operands, r \in Operands :
          (last'.op = "arith" /\ WellFormed(l) /\ WellFormed(r) /\ Arith(sym, l, r))
            => ArithResult(sym, <<l, r>>)
     /\ \A sym \in UnarySymbols, x \in Operands :
          (last'.op = "unary" /\ WellFormed(x) /\ Unary(sym, x))
            => ArithResult(sym, <<x>>)
    ]_vars

\* What does hold: the same with the FieldPath or SyntheticField on the left.
C6_FieldObjectOnLeft ==
  [][/\ \A sym \in BinarySymbols, l \in Operands, r \in Operands :
          (last'.op = "arith" /\ WellFormed(l) /\ WellFormed(r) /\ IsFieldObject(l)
             /\ Arith(sym, l, r))
            => ArithResult(sym, <<l, r>>)
     /\ \A sym \in UnarySymbols, x \in Operands :
          (last'.op = "unary" /\ WellFormed(x) /\ Unary(sym, x))
            => ArithResult(sym, <<x>>)
    ]_vars

(***************************************************************************)
(* C8: in single-threaded use the counter starts at 0, never decreases,    *)
(* moves by one with each SyntheticField constructed and not at all        *)
(* otherwise; a SyntheticField is constructed with the name                *)
(* SyntheticField_<n>, n the counter then, and no two SyntheticFields are  *)
(* constructed with the same name.                                         *)
(***************************************************************************)
DistinctAutoNames(ss) ==
  \A i \in DOMAIN ss, j \in DOMAIN ss : i # j => ss[i].auto # ss[j].auto

C8_CounterNames ==
  /\ counter = 0
  /\ [][/\ counter' >= counter
        /\ IF Len(sfs') = Len(sfs) + 1
             THEN /\ counter' = counter + 1
                  /\ sfs'[Len(sfs')].auto = "SyntheticField_" \o ToString(counter)
                  /\ last'.outcome = "ok"
             ELSE /\ counter' = counter
                  /\ Len(sfs') = Len(sfs)
        /\ \A j \in DOMAIN sfs : sfs'[j].auto = sfs[j].auto
        /\ DistinctAutoNames(sfs')
       ]_vars

\* Constructions that failed and constructions that succeeded, an assignment
\* of a FieldPath and one of a SyntheticField have all happened.
C8_Witness ==
  /\ Len(sfs) = 2 /\ counter = 2
  /\ sfs[1].auto = "SyntheticField_0" /\ sfs[2].auto = "SyntheticField_1"
  /\ sfs[1].name = "adj" /\ sfs[2].name = "adj"
  /\ sfs[1].func = "identity" /\ sfs[2].func # "identity"
  /\ last.outcome = "raise@75"

(***************************************************************************)
(* The `where` mapping.                                                    *)
(***************************************************************************)
\* The key the specification gives a Filter.
Suffix ==
  [op \in Operators |->
    CASE op = "EQ" -> "" [] op = "NEQ" -> "_not" [] op = "LT" -> "_lt"
      [] op = "GT" -> "_gt" [] op = "LTE" -> "_lte" [] op = "GTE" -> "_gte"]

FilterKey(f) == f.field.name \o Suffix[f.op]

Converted == where.done /\ where.filters # <<>>

\* C5 as stated: a non-empty `where` list becomes a mapping that holds, for
\* each Filter of the list, an entry with the Filter's name as key and its
\* comparand as value.
C5_Original ==
  Converted =>
    /\ where.out.t = "dict"
    /\ \A i \in DOMAIN where.filters :
         \E j \in DOMAIN where.out.d :
           where.out.d[j] = <<FilterKey(where.filters[i]), where.filters[i].value>>

\* C5, amended: a non-empty `where` list becomes a mapping whose keys are
\* exactly the names of the list's Filters, each once, and whose value under a
\* key is the comparand of the last Filter of the list with that name; so
\* Filters of pairwise different names contribute one entry each, as the EQ
\* and the NEQ filter on one field do.
C5_LastOfEachName ==
  Converted =>
    LET fs == where.filters
        d  == where.out.d
    IN  /\ where.out.t = "dict"
        /\ DictKeys(d) = {FilterKey(fs[i]) : i \in DOMAIN fs}
        /\ \A j, k \in DOMAIN d : d[j][1] = d[k][1] => j = k
        /\ \A j \in DOMAIN d :
             \E i \in DOMAIN fs :
               /\ FilterKey(fs[i]) = d[j][1]
               /\ fs[i].value = d[j][2]
               /\ \A m \in DOMAIN fs : FilterKey(fs[m]) = d[j][1] => m <= i
        /\ (\A i, m \in DOMAIN fs : i # m => FilterKey(fs[i]) # FilterKey(fs[m]))
             => \A i \in DOMAIN fs : d[i] = <<FilterKey(fs[i]), fs[i].value>>

\* An EQ and a NEQ filter with different comparands on the field `price`
\* were converted to the two entries price and price_not.
C5_Witness ==
  /\ Converted
  /\ Len(where.filters) = 2
  /\ where.filters[1].field = where.filters[2].field
  /\ where.filters[1].field.name = "price"
  /\ where.filters[1].op = "EQ" /\ where.filters[2].op = "NEQ"
  /\ where.filters[1].value # where.filters[2].value
  /\ where.out.d = << <<"price", where.filters[1].value>>,
                      <<"price_not", where.filters[2].value>> >>

(***************************************************************************)
(* Concurrent construction.                                                *)
(***************************************************************************)
AllDone == \A t \in Threads : threads[t].pc = "idle" /\ threads[t].made = MaxRounds

\* C9: under every interleaving of two threads that construct
\* SyntheticFields with no lock, each name is SyntheticField_k for a k below
\* the number of fields made so far; and when both threads are done the
\* counter is at least 1, at most the number of fields constructed, and lower
\* than it only if two of the fields carry the same auto-generated name.  The
\* witness is the interleaving the claim says there is.
C9_RaceOnCounter ==
  /\ \A j \in DOMAIN sfs : \E k \in 0..(Len(sfs) - 1) : sfs[j].auto = auto_name(k)
  /\ AllDone =>
       /\ 1 <= counter /\ counter <= Len(sfs)
       /\ counter < Len(sfs) => ~DistinctAutoNames(sfs)

\* Both threads are done, two fields made by different threads have the same
\* auto-generated name, and the counter is lower than the number of fields.
C9_Witness ==
  /\ AllDone
  /\ \E i, j \in DOMAIN sfs :
       /\ sfs[i].deps # sfs[j].deps
       /\ sfs[i].auto = sfs[j].auto
  /\ counter < Len(sfs)

(***************************************************************************)
(* Decoration.                                                             *)
(***************************************************************************)
\* The synthetic descriptors a synthetic field depends on directly.
SynthDeps(j) ==
  {sfs[j].deps[n].sf : n \in {m \in DOMAIN sfs[j].deps : sfs[j].deps[m].k = "meta"}}
    \cup {sfs[j].deps[n].chain[Len(sfs[j].deps[n].chain)].field.sf :
            n \in {m \in DOMAIN sfs[j].deps :
                     /\ sfs[j].deps[m].k = "chain"
                     /\ sfs[j].deps[m].chain[Len(sfs[j].deps[m].chain)].field.kind = "synthetic"}}

\* What the three fields are, of the price at the position.
Expected(n0, price) ==
  CASE n0 = "adj" -> price + 10
    [] n0 = "net" -> (price + 10) * price
    [] n0 = "fee" -> (price + 10) * price - (price + 10)

\* The position a path's leaf is evaluated at.
LeafPosition(p) == IF Len(paths[p].path) = 1 THEN "top" ELSE "parent"

====
